---- MODULE Spec2Model ----
(***************************************************************************)
(* WorldApi of jetlag: actor descriptors (ActorConfig, checkActorConfig),  *)
(* the five make* methods, drawBoundingBox, the parallax-layer methods and *)
(* the arrow-key tilt simulation of enableTilt.                            *)
(*                                                                         *)
(* The engine (actors' classes, the world, the parallax layers, the        *)
(* keyboard and the accelerometer) is outside the modelled source: the     *)
(* model records what WorldApi hands to it.                                *)
(***************************************************************************)
EXTENDS Integers, Sequences, FiniteSets, TLC

\* ------------------------------------------------------------ bounds
\* Coordinates are 0..MaxCoord, dimensions 1..MaxDim, z inputs -MaxZ..MaxZ.
MaxCoord == 1
MaxDim == 2
MaxZ == 3
\* Actors the world holds at most in a run of the model.
MaxActors == 4
\* density, elasticity and friction are 0..MaxPhys.
MaxPhys == 1
\* Parallax speeds are 0..MaxSpeed; at most MaxLayers layer calls in a run.
MaxSpeed == 2
MaxLayers == 2
\* enableTilt's maxima are 1..MaxGravity.
MaxGravity == 2

\* ------------------------------------------------- program constants
ZMin == -2
ZMax == 2
BoxThickness == 1
AutoSpeedDivisor == 1000
TiltForce == 5

Coords == 0..MaxCoord
Dims == 1..MaxDim
PhysVals == 0..MaxPhys

\* ---------------------------------------------------- JavaScript values
\* A descriptor is an object: a function from the names of the fields it has.
\* An optional field that the caller left out is not in its DOMAIN.
Has(c, f) == f \in DOMAIN c
Put(c, f, v) == [g \in (DOMAIN c) \cup {f} |-> IF g = f THEN v ELSE c[g]]

\* A quotient is kept exact, as a fraction num/den: x / 1000, radius / 2.
Frac(n, d) == [num |-> n, den |-> d]
Whole(n) == Frac(n, 1)
SameFrac(a, b) == a.num * b.den = b.num * a.den

\* verts is null or an array of numbers.
Null == [type |-> "null"]
Arr(s) == [type |-> "array", elems |-> s]

\* The descriptors callers build: the mandatory fields, and any of the optional ones.
Imgs == {"", "hero.png"}
VertsVals == {Null, Arr(<< >>), Arr(<<0, -1, 1, 1, -1, 1>>)}
ZVals == (-MaxZ)..MaxZ
Opt(D, f, V) == D \cup {Put(d, f, v) : d \in D, v \in V}
Mandatory == [x : Coords, y : Coords, width : Dims, height : Dims]
Descriptors == Opt(Opt(Opt(Opt(Mandatory, "img", Imgs), "box", BOOLEAN), "verts", VertsVals), "z", ZVals)

\* ------------------------------------------------------ checkActorConfig
\* !c.img, !c.box, !c.verts, !c.z: the field is missing (undefined) or falsy.
\* An array, also an empty one, is truthy.
NotImg(c) == ~Has(c, "img") \/ c.img = ""
NotBox(c) == ~Has(c, "box") \/ c.box = FALSE
NotVerts(c) == ~Has(c, "verts") \/ c.verts = Null
NotZ(c) == ~Has(c, "z") \/ c.z = 0

\* Mutants of checkActorConfig: the upper clamp left out; the test of img inverted.
checkActorConfig_NoUpperClamp(c) ==
    LET z0 == IF NotZ(c) THEN 0 ELSE c.z
    IN  [x |-> c.x, y |-> c.y, width |-> c.width, height |-> c.height,
         img |-> IF NotImg(c) THEN "" ELSE c.img,
         box |-> IF NotBox(c) THEN FALSE ELSE c.box,
         verts |-> IF NotVerts(c) THEN Null ELSE c.verts,
         z |-> IF z0 < ZMin THEN ZMin ELSE z0]
checkActorConfig_DropsImg(c) ==
    LET z0 == IF NotZ(c) THEN 0 ELSE c.z
    IN  [x |-> c.x, y |-> c.y, width |-> c.width, height |-> c.height,
         img |-> "",
         box |-> IF NotBox(c) THEN FALSE ELSE c.box,
         verts |-> IF NotVerts(c) THEN Null ELSE c.verts,
         z |-> IF z0 < ZMin THEN ZMin ELSE IF z0 > ZMax THEN ZMax ELSE z0]

\* The descriptor as the six statements leave it. Each of the first four
\* writes one field and reads no other; the two clamps read the z that the
\* fourth wrote (z0).
checkActorConfig(c) ==
    LET z0 == IF NotZ(c) THEN 0 ELSE c.z
    IN  [x |-> c.x, y |-> c.y, width |-> c.width, height |-> c.height,
         img |-> IF NotImg(c) THEN "" ELSE c.img,
         box |-> IF NotBox(c) THEN FALSE ELSE c.box,
         verts |-> IF NotVerts(c) THEN Null ELSE c.verts,
         z |-> IF z0 < ZMin THEN ZMin ELSE IF z0 > ZMax THEN ZMax ELSE z0]

\* --------------------------------------------------- the engine's actors
\* new Obstacle/Hero/Enemy/Destination/Goodie(stage, width, height, img, z):
\* the actor as constructed, with no physics body yet.
NewActor(kind, width, height, img, z) ==
    [kind |-> kind, width |-> width, height |-> height, img |-> img, z |-> z,
     bodies |-> << >>, collisions |-> TRUE, physics |-> << >>]

\* radius / 2
Half(n) == Frac(n, 2)
Max(a, b) == IF a > b THEN a ELSE b

setPolygonPhysics(a, type, x, y, verts) ==
    [a EXCEPT !.bodies = Append(@, [shape |-> "polygon", type |-> type, x |-> x, y |-> y, verts |-> verts])]
setBoxPhysics(a, type, x, y) ==
    [a EXCEPT !.bodies = Append(@, [shape |-> "box", type |-> type, x |-> x, y |-> y])]
setCirclePhysics(a, type, x, y, radius) ==
    [a EXCEPT !.bodies = Append(@, [shape |-> "circle", type |-> type, x |-> x, y |-> y, radius |-> radius])]
setCollisionsEnabled(a, b) == [a EXCEPT !.collisions = b]
setPhysics(a, density, elasticity, friction) ==
    [a EXCEPT !.physics = Append(@, [density |-> density, elasticity |-> elasticity, friction |-> friction])]

\* ------------------------------------------------------- the make* methods
\* Each gives what one call does: the descriptor as checkActorConfig left it
\* (cfgs, one per check), the actor returned (ret), the world's addActor calls
\* (added: the actor and the z it is added at) and the score callbacks (score).
makeObstacle(c) ==
    LET cfg == checkActorConfig(c)
        o == IF cfg.verts /= Null
             THEN setPolygonPhysics(NewActor("Obstacle", cfg.width, cfg.height, cfg.img, cfg.z),
                                    "STATIC", cfg.x, cfg.y, cfg.verts)
             ELSE IF cfg.box
             THEN setBoxPhysics(NewActor("Obstacle", cfg.width, cfg.height, cfg.img, cfg.z),
                                "STATIC", cfg.x, cfg.y)
             ELSE LET radius == Max(cfg.width, cfg.height)
                  IN  setCirclePhysics(NewActor("Obstacle", radius, radius, cfg.img, cfg.z),
                                       "STATIC", cfg.x, cfg.y, Half(radius))
    IN  [cfgs |-> <<cfg>>, ret |-> <<o>>, added |-> <<[actor |-> o, z |-> cfg.z]>>, score |-> << >>]

makeHero(c) ==
    LET cfg == checkActorConfig(c)
        h == IF cfg.verts /= Null
             THEN setPolygonPhysics(NewActor("Hero", cfg.width, cfg.height, cfg.img, cfg.z),
                                    "DYNAMIC", cfg.x, cfg.y, cfg.verts)
             ELSE IF cfg.box
             THEN setBoxPhysics(NewActor("Hero", cfg.width, cfg.height, cfg.img, cfg.z),
                                "DYNAMIC", cfg.x, cfg.y)
             ELSE LET radius == Max(cfg.width, cfg.height)
                  IN  setCirclePhysics(NewActor("Hero", radius, radius, cfg.img, cfg.z),
                                       "DYNAMIC", cfg.x, cfg.y, Half(radius))
    IN  [cfgs |-> <<cfg>>, ret |-> <<h>>, added |-> <<[actor |-> h, z |-> 0]>>, score |-> <<"onHeroCreated">>]

makeEnemy(c) ==
    LET cfg == checkActorConfig(c)
        e == IF cfg.verts /= Null
             THEN setPolygonPhysics(NewActor("Enemy", cfg.width, cfg.height, cfg.img, cfg.z),
                                    "STATIC", cfg.x, cfg.y, cfg.verts)
             ELSE IF cfg.box
             THEN setBoxPhysics(NewActor("Enemy", cfg.width, cfg.height, cfg.img, cfg.z),
                                "STATIC", cfg.x, cfg.y)
             ELSE LET radius == Max(cfg.width, cfg.height)
                  IN  setCirclePhysics(NewActor("Enemy", radius, radius, cfg.img, cfg.z),
                                       "STATIC", cfg.x, cfg.y, Half(radius))
    IN  [cfgs |-> <<cfg>>, ret |-> <<e>>, added |-> <<[actor |-> e, z |-> 0]>>, score |-> <<"onEnemyCreated">>]

\* Mutant of makeDestination: the actor is made and returned but not added to the world.
makeDestination_NotAdded(c) ==
    LET cfg == checkActorConfig(c)
        d == IF cfg.verts /= Null
             THEN setPolygonPhysics(NewActor("Destination", cfg.width, cfg.height, cfg.img, cfg.z),
                                    "STATIC", cfg.x, cfg.y, cfg.verts)
             ELSE IF cfg.box
             THEN setBoxPhysics(NewActor("Destination", cfg.width, cfg.height, cfg.img, cfg.z),
                                "STATIC", cfg.x, cfg.y)
             ELSE LET radius == Max(cfg.width, cfg.height)
                  IN  setCirclePhysics(NewActor("Destination", radius, radius, cfg.img, cfg.z),
                                       "STATIC", cfg.x, cfg.y, Half(radius))
        d2 == setCollisionsEnabled(d, FALSE)
    IN  [cfgs |-> <<cfg>>, ret |-> <<d2>>, added |-> << >>, score |-> << >>]

makeDestination(c) ==
    LET cfg == checkActorConfig(c)
        d == IF cfg.verts /= Null
             THEN setPolygonPhysics(NewActor("Destination", cfg.width, cfg.height, cfg.img, cfg.z),
                                    "STATIC", cfg.x, cfg.y, cfg.verts)
             ELSE IF cfg.box
             THEN setBoxPhysics(NewActor("Destination", cfg.width, cfg.height, cfg.img, cfg.z),
                                "STATIC", cfg.x, cfg.y)
             ELSE LET radius == Max(cfg.width, cfg.height)
                  IN  setCirclePhysics(NewActor("Destination", radius, radius, cfg.img, cfg.z),
                                       "STATIC", cfg.x, cfg.y, Half(radius))
        d2 == setCollisionsEnabled(d, FALSE)
    IN  [cfgs |-> <<cfg>>, ret |-> <<d2>>, added |-> <<[actor |-> d2, z |-> 0]>>, score |-> << >>]

\* Mutant of makeGoodie: box is tested before verts.
makeGoodie_BoxFirst(c) ==
    LET cfg == checkActorConfig(c)
        g == IF cfg.box
             THEN setBoxPhysics(NewActor("Goodie", cfg.width, cfg.height, cfg.img, cfg.z),
                                "STATIC", cfg.x, cfg.y)
             ELSE IF cfg.verts /= Null
             THEN setPolygonPhysics(NewActor("Goodie", cfg.width, cfg.height, cfg.img, cfg.z),
                                    "STATIC", cfg.x, cfg.y, cfg.verts)
             ELSE LET radius == Max(cfg.width, cfg.height)
                  IN  setCirclePhysics(NewActor("Goodie", radius, radius, cfg.img, cfg.z),
                                       "STATIC", cfg.x, cfg.y, Half(radius))
        g2 == setCollisionsEnabled(g, FALSE)
    IN  [cfgs |-> <<cfg>>, ret |-> <<g2>>, added |-> <<[actor |-> g2, z |-> 0]>>, score |-> << >>]

makeGoodie(c) ==
    LET cfg == checkActorConfig(c)
        g == IF cfg.verts /= Null
             THEN setPolygonPhysics(NewActor("Goodie", cfg.width, cfg.height, cfg.img, cfg.z),
                                    "STATIC", cfg.x, cfg.y, cfg.verts)
             ELSE IF cfg.box
             THEN setBoxPhysics(NewActor("Goodie", cfg.width, cfg.height, cfg.img, cfg.z),
                                "STATIC", cfg.x, cfg.y)
             ELSE LET radius == Max(cfg.width, cfg.height)
                  IN  setCirclePhysics(NewActor("Goodie", radius, radius, cfg.img, cfg.z),
                                       "STATIC", cfg.x, cfg.y, Half(radius))
        g2 == setCollisionsEnabled(g, FALSE)
    IN  [cfgs |-> <<cfg>>, ret |-> <<g2>>, added |-> <<[actor |-> g2, z |-> 0]>>, score |-> << >>]

\* ------------------------------------------------------- drawBoundingBox
Abs(n) == IF n < 0 THEN -n ELSE n

\* Mutant of boundingBoxDescriptors: the right wall starts one unit inside the rectangle.
boundingBoxDescriptors_RightInside(x0, y0, x1, y1, imgName) ==
    << [box |-> TRUE, x |-> x0 - 1, y |-> y1, width |-> Abs(x0 - x1) + 2, height |-> BoxThickness, img |-> imgName],
       [box |-> TRUE, x |-> x0 - 1, y |-> y0 - 1, width |-> Abs(x0 - x1) + 2, height |-> BoxThickness, img |-> imgName],
       [box |-> TRUE, x |-> x0 - 1, y |-> y0 - 1, width |-> BoxThickness, height |-> Abs(y0 - y1) + 2, img |-> imgName],
       [box |-> TRUE, x |-> x1 - 1, y |-> y0 - 1, width |-> BoxThickness, height |-> Abs(y0 - y1) + 2, img |-> imgName] >>

\* The four descriptors drawBoundingBox builds, in the order it makes them:
\* bottom, top, left, right.
boundingBoxDescriptors(x0, y0, x1, y1, imgName) ==
    << [box |-> TRUE, x |-> x0 - 1, y |-> y1, width |-> Abs(x0 - x1) + 2, height |-> BoxThickness, img |-> imgName],
       [box |-> TRUE, x |-> x0 - 1, y |-> y0 - 1, width |-> Abs(x0 - x1) + 2, height |-> BoxThickness, img |-> imgName],
       [box |-> TRUE, x |-> x0 - 1, y |-> y0 - 1, width |-> BoxThickness, height |-> Abs(y0 - y1) + 2, img |-> imgName],
       [box |-> TRUE, x |-> x1, y |-> y0 - 1, width |-> BoxThickness, height |-> Abs(y0 - y1) + 2, img |-> imgName] >>

\* The actor is in the world when setPhysics is called on it: the world's
\* entry is the same object, so it shows the physics too.
drawBoundingBox(x0, y0, x1, y1, imgName, density, elasticity, friction) ==
    LET ds == boundingBoxDescriptors(x0, y0, x1, y1, imgName)
        made == [i \in 1..4 |-> makeObstacle(ds[i])]
        entry(i) == [actor |-> setPhysics(made[i].added[1].actor, density, elasticity, friction),
                     z |-> made[i].added[1].z]
    IN  [args |-> ds,
         cfgs |-> [i \in 1..4 |-> made[i].cfgs[1]],
         ret |-> << >>,
         added |-> [i \in 1..4 |-> entry(i)],
         score |-> << >>]

\* ------------------------------------------------------- parallax layers
Speeds == 0..MaxSpeed
LayerImgs == {"mid.png", "back.png"}
\* ImageConfigs as checkImageConfig leaves them.
ImageConfigs == [x : {0}, y : {0}, width : {16}, height : {9}, img : LayerImgs]

\* new ParallaxLayer(x, y, width, height, speed, <repeats in X>, <auto>, img, config, device)
ParallaxLayer(x, y, width, height, speed, isHorizontal, isAuto, imgName) ==
    [x |-> x, y |-> y, width |-> width, height |-> height, speed |-> speed,
     horizontal |-> isHorizontal, auto |-> isAuto, img |-> imgName]

\* Each method gives the layer it creates (pl) and the collection it adds it to.
addHorizontalBackgroundLayer(cfg, xSpeed) ==
    [to |-> "background",
     pl |-> ParallaxLayer(cfg.x, cfg.y, cfg.width, cfg.height, Whole(xSpeed), TRUE, FALSE, cfg.img)]
addVerticalBackgroundLayer(cfg, ySpeed) ==
    [to |-> "background",
     pl |-> ParallaxLayer(cfg.x, cfg.y, cfg.width, cfg.height, Whole(ySpeed), FALSE, FALSE, cfg.img)]
\* Mutant of addHorizontalForegroundLayer: the layer goes to the background.
addHorizontalForegroundLayer_ToBackground(cfg, xSpeed) ==
    [to |-> "background",
     pl |-> ParallaxLayer(cfg.x, cfg.y, cfg.width, cfg.height, Whole(xSpeed), TRUE, FALSE, cfg.img)]
addHorizontalForegroundLayer(cfg, xSpeed) ==
    [to |-> "foreground",
     pl |-> ParallaxLayer(cfg.x, cfg.y, cfg.width, cfg.height, Whole(xSpeed), TRUE, FALSE, cfg.img)]
addHorizontalAutoBackgroundLayer(cfg, xSpeed) ==
    [to |-> "background",
     pl |-> ParallaxLayer(cfg.x, cfg.y, cfg.width, cfg.height, Frac(xSpeed, AutoSpeedDivisor), TRUE, TRUE, cfg.img)]
addVerticalAutoBackgroundLayer(cfg, ySpeed) ==
    [to |-> "background",
     pl |-> ParallaxLayer(cfg.x, cfg.y, cfg.width, cfg.height, Frac(ySpeed, AutoSpeedDivisor), FALSE, TRUE, cfg.img)]

\* --------------------------------------------------------------- enableTilt
Keys == {"UP", "DOWN", "LEFT", "RIGHT"}
GravityVals == 1..MaxGravity

\* A handler is the accelerometer call it makes: setX(value) or setY(value).
NoHandler == [axis |-> "none", value |-> 0]
setX(v) == [axis |-> "X", value |-> v]
setY(v) == [axis |-> "Y", value |-> v]

\* The handlers enableTilt installs when the accelerometer is not supported.
keyUpHandlers ==
    [k \in Keys |-> CASE k = "UP" -> setY(0)
                      [] k = "DOWN" -> setY(0)
                      [] k = "LEFT" -> setX(0)
                      [] k = "RIGHT" -> setX(0)]
keyDownHandlers ==
    [k \in Keys |-> CASE k = "UP" -> setY(-TiltForce)
                      [] k = "DOWN" -> setY(TiltForce)
                      [] k = "LEFT" -> setX(-TiltForce)
                      [] k = "RIGHT" -> setX(TiltForce)]

\* ------------------------------------------------------------------ state
VARIABLES
    call,       \* the WorldApi call that has just returned, or NoCall
    args,       \* the descriptors that call handed to makeX, as the caller built them
    cfgs,       \* the same descriptors as checkActorConfig left them
    ret,        \* <<the actor the call returned>>, << >> for a void call
    added,      \* the world's addActor calls of that call: <<[actor, z]>>
    score,      \* the score callbacks of that call
    numActors,  \* actors added to the world so far
    numCalls,   \* make* calls so far (drawBoundingBox makes four)
    background, \* stage.getBackground(): its layers, in addLayer order
    foreground, \* stage.getForeground(): its layers, in addLayer order
    layerCalls, \* the parallax-layer calls made so far: [method, cfg, speed]
    supported,  \* device.getAccelerometer().getSupported()
    tiltMax,    \* the world's tilt maxima, << >> until setTiltMax
    upHandler,  \* the keyboard's key-up handler of each arrow key
    downHandler,\* the keyboard's key-down handler of each arrow key
    accelX,     \* the accelerometer's X
    accelY,     \* the accelerometer's Y
    held,       \* the arrow keys that are down
    heldSince   \* those of them that went down with a key-down handler installed

actorVars == <<call, args, cfgs, ret, added, score, numActors, numCalls>>
layerVars == <<background, foreground, layerCalls>>
tiltVars == <<supported, tiltMax, upHandler, downHandler, accelX, accelY, held, heldSince>>
vars == <<actorVars, layerVars, tiltVars>>

NoCall == [name |-> "none"]

Init ==
    /\ call = NoCall
    /\ args = << >>
    /\ cfgs = << >>
    /\ ret = << >>
    /\ added = << >>
    /\ score = << >>
    /\ numActors = 0
    /\ numCalls = 0
    /\ background = << >>
    /\ foreground = << >>
    /\ layerCalls = << >>
    /\ supported \in BOOLEAN
    /\ tiltMax = << >>
    /\ upHandler = [k \in Keys |-> NoHandler]
    /\ downHandler = [k \in Keys |-> NoHandler]
    /\ accelX = 0
    /\ accelY = 0
    /\ held = {}
    /\ heldSince = {}

\* One make* call, from the caller's descriptor c to the method's return.
Made(name, c, r) ==
    /\ call' = [name |-> name]
    /\ args' = <<c>>
    /\ cfgs' = r.cfgs
    /\ ret' = r.ret
    /\ added' = r.added
    /\ score' = r.score
    /\ numActors' = numActors + Len(r.added)
    /\ numCalls' = numCalls + 1
    /\ UNCHANGED <<layerVars, tiltVars>>

Ready(n) == call = NoCall /\ numActors + n <= MaxActors

MakeObstacle == Ready(1) /\ \E c \in Descriptors : Made("makeObstacle", c, makeObstacle(c))
MakeHero == Ready(1) /\ \E c \in Descriptors : Made("makeHero", c, makeHero(c))
MakeEnemy == Ready(1) /\ \E c \in Descriptors : Made("makeEnemy", c, makeEnemy(c))
MakeDestination == Ready(1) /\ \E c \in Descriptors : Made("makeDestination", c, makeDestination(c))
MakeGoodie == Ready(1) /\ \E c \in Descriptors : Made("makeGoodie", c, makeGoodie(c))

DrawBoundingBox ==
    /\ Ready(4)
    /\ \E x0 \in Coords, y0 \in Coords, x1 \in Coords, y1 \in Coords, imgName \in Imgs,
          density \in PhysVals, elasticity \in PhysVals, friction \in PhysVals :
          LET r == drawBoundingBox(x0, y0, x1, y1, imgName, density, elasticity, friction)
          IN  /\ call' = [name |-> "drawBoundingBox", x0 |-> x0, y0 |-> y0, x1 |-> x1, y1 |-> y1,
                          imgName |-> imgName, density |-> density, elasticity |-> elasticity,
                          friction |-> friction]
              /\ args' = r.args
              /\ cfgs' = r.cfgs
              /\ ret' = r.ret
              /\ added' = r.added
              /\ score' = r.score
              /\ numActors' = numActors + Len(r.added)
              /\ numCalls' = numCalls + 4
    /\ UNCHANGED <<layerVars, tiltVars>>

\* The caller is done with the descriptor and the handle of the call.
Discard ==
    /\ call /= NoCall
    /\ call' = NoCall
    /\ args' = << >>
    /\ cfgs' = << >>
    /\ ret' = << >>
    /\ added' = << >>
    /\ score' = << >>
    /\ UNCHANGED <<numActors, numCalls, layerVars, tiltVars>>

NextActors ==
    \/ MakeObstacle
    \/ MakeHero
    \/ MakeEnemy
    \/ MakeDestination
    \/ MakeGoodie
    \/ DrawBoundingBox
    \/ Discard

SpecActors == Init /\ [][NextActors]_vars
\* ---------------------------------------------------- layer actions
Added(method, cfg, speed, r) ==
    /\ background' = IF r.to = "background" THEN Append(background, r.pl) ELSE background
    /\ foreground' = IF r.to = "foreground" THEN Append(foreground, r.pl) ELSE foreground
    /\ layerCalls' = Append(layerCalls, [method |-> method, cfg |-> cfg, speed |-> speed])
    /\ UNCHANGED <<actorVars, tiltVars>>

LayerRoom == Len(layerCalls) < MaxLayers

AddHorizontalBackgroundLayer ==
    LayerRoom /\ \E cfg \in ImageConfigs, xSpeed \in Speeds :
        Added("addHorizontalBackgroundLayer", cfg, xSpeed, addHorizontalBackgroundLayer(cfg, xSpeed))
AddVerticalBackgroundLayer ==
    LayerRoom /\ \E cfg \in ImageConfigs, ySpeed \in Speeds :
        Added("addVerticalBackgroundLayer", cfg, ySpeed, addVerticalBackgroundLayer(cfg, ySpeed))
AddHorizontalForegroundLayer ==
    LayerRoom /\ \E cfg \in ImageConfigs, xSpeed \in Speeds :
        Added("addHorizontalForegroundLayer", cfg, xSpeed, addHorizontalForegroundLayer(cfg, xSpeed))
AddHorizontalAutoBackgroundLayer ==
    LayerRoom /\ \E cfg \in ImageConfigs, xSpeed \in Speeds :
        Added("addHorizontalAutoBackgroundLayer", cfg, xSpeed, addHorizontalAutoBackgroundLayer(cfg, xSpeed))
AddVerticalAutoBackgroundLayer ==
    LayerRoom /\ \E cfg \in ImageConfigs, ySpeed \in Speeds :
        Added("addVerticalAutoBackgroundLayer", cfg, ySpeed, addVerticalAutoBackgroundLayer(cfg, ySpeed))

NextLayers ==
    \/ AddHorizontalBackgroundLayer
    \/ AddVerticalBackgroundLayer
    \/ AddHorizontalForegroundLayer
    \/ AddHorizontalAutoBackgroundLayer
    \/ AddVerticalAutoBackgroundLayer

SpecLayers == Init /\ [][NextLayers]_vars

\* ----------------------------------------------------- tilt actions
EnableTilt ==
    /\ \E xGravityMax \in GravityVals, yGravityMax \in GravityVals :
          tiltMax' = <<xGravityMax, yGravityMax>>
    /\ IF ~supported
       THEN upHandler' = keyUpHandlers /\ downHandler' = keyDownHandlers
       ELSE UNCHANGED <<upHandler, downHandler>>
    /\ UNCHANGED <<supported, accelX, accelY, held, heldSince, actorVars, layerVars>>

\* The keyboard runs the handler of the key, when it has one.
Run(h) ==
    /\ accelX' = IF h.axis = "X" THEN h.value ELSE accelX
    /\ accelY' = IF h.axis = "Y" THEN h.value ELSE accelY

KeyDown ==
    \E k \in Keys :
        /\ held' = held \cup {k}
        /\ heldSince' = IF downHandler[k] /= NoHandler THEN heldSince \cup {k} ELSE heldSince
        /\ Run(downHandler[k])
        /\ UNCHANGED <<supported, tiltMax, upHandler, downHandler, actorVars, layerVars>>

KeyUp ==
    \E k \in held :
        /\ held' = held \ {k}
        /\ heldSince' = heldSince \ {k}
        /\ Run(upHandler[k])
        /\ UNCHANGED <<supported, tiltMax, upHandler, downHandler, actorVars, layerVars>>

NextTilt ==
    \/ EnableTilt
    \/ KeyDown
    \/ KeyUp

SpecTilt == Init /\ [][NextTilt]_vars

\* Every operation of the API. The three groups of operations act on disjoint
\* parts of the stage (each leaves the others' variables UNCHANGED), so the
\* properties of a group are checked under that group's specification.
Next == NextActors \/ NextLayers \/ NextTilt
Spec == Init /\ [][Next]_vars

\* ================================================================ claims
MakeNames == {"makeObstacle", "makeHero", "makeEnemy", "makeDestination", "makeGoodie"}
\* A make* call has just returned.
IsMake == call.name \in MakeNames
\* The shape of the one body of actor a.
ShapeOf(a) == a.bodies[1].shape

\* C1: in every make* call, the z the descriptor holds after checkActorConfig
\* is in [-2, 2] and is the z given to the actor's constructor; an input z
\* below -2 becomes -2, one above 2 becomes 2, one in [-2, 2] is unchanged
\* (an absent z lands in the range too).
ZOrderClamped ==
    IsMake =>
        LET c == args[1]
            cfg == cfgs[1]
        IN  /\ cfg.z \in (-2)..2
            /\ ret[1].z = cfg.z
            /\ (Has(c, "z") /\ c.z < -2) => cfg.z = -2
            /\ (Has(c, "z") /\ c.z > 2) => cfg.z = 2
            /\ (Has(c, "z") /\ c.z \in (-2)..2) => cfg.z = c.z

\* Witness of C1: makeEnemy has clamped a z of 3 to 2.
ZOrderClampedWitness ==
    /\ call.name = "makeEnemy"
    /\ Has(args[1], "z")
    /\ args[1].z = 3
    /\ cfgs[1].z = 2
    /\ ret[1].z = 2

\* The shape the precedence polygon > box > circle gives descriptor c.
ShapeByPrecedence(c) ==
    IF Has(c, "verts") /\ c.verts /= Null THEN "polygon"
    ELSE IF Has(c, "box") /\ c.box THEN "box"
    ELSE "circle"

\* C2: every make* call sets exactly one physics body on its actor, a polygon
\* when verts is present (also when empty, also when box is true), a box when
\* verts is absent and box is true, a circle otherwise; the choice depends on
\* the descriptor alone, not on the method.
ShapePrecedence ==
    IsMake =>
        /\ Len(ret[1].bodies) = 1
        /\ ShapeOf(ret[1]) = ShapeByPrecedence(args[1])
        /\ ShapeOf(ret[1]) = "polygon" => ret[1].bodies[1].verts = args[1].verts

\* Witness of C2: makeGoodie got an empty verts array and box true, and made a polygon.
ShapePrecedenceWitness ==
    /\ call.name = "makeGoodie"
    /\ Has(args[1], "verts") /\ args[1].verts = Arr(<< >>)
    /\ Has(args[1], "box") /\ args[1].box
    /\ ShapeOf(ret[1]) = "polygon"

\* C3: checkActorConfig rejects no descriptor and fills in every missing
\* optional field: img "", box false, verts null, z 0; an optional field that
\* is present (z: and in range) keeps its value, as do the mandatory fields.
DefaultsSubstituted ==
    IsMake =>
        LET c == args[1]
            cfg == cfgs[1]
        IN  /\ Len(cfgs) = 1 /\ Len(ret) = 1
            /\ DOMAIN cfg = {"x", "y", "width", "height", "img", "box", "verts", "z"}
            /\ cfg.x = c.x /\ cfg.y = c.y /\ cfg.width = c.width /\ cfg.height = c.height
            /\ cfg.img = IF Has(c, "img") THEN c.img ELSE ""
            /\ cfg.box = IF Has(c, "box") THEN c.box ELSE FALSE
            /\ cfg.verts = IF Has(c, "verts") THEN c.verts ELSE Null
            /\ ~Has(c, "z") => cfg.z = 0
            /\ (Has(c, "z") /\ c.z \in (-2)..2) => cfg.z = c.z

\* Witness of C3: a descriptor with the mandatory fields only went through makeHero.
DefaultsSubstitutedWitness ==
    /\ call.name = "makeHero"
    /\ DOMAIN args[1] = {"x", "y", "width", "height"}
    /\ cfgs[1].img = "" /\ cfgs[1].box = FALSE /\ cfgs[1].verts = Null /\ cfgs[1].z = 0

\* C4: in every make* call the z the actor is added to the world at is the
\* descriptor's defaulted and clamped z, which is the constructor's z too.
AddedAtDescriptorZ ==
    IsMake =>
        /\ ret[1].z = cfgs[1].z
        /\ added[1].z = cfgs[1].z

\* C5: an actor made as a circle has a circle of radius max(width, height).
CircleRadiusIsLargerSide ==
    (IsMake /\ ShapeOf(ret[1]) = "circle") =>
        SameFrac(ret[1].bodies[1].radius, Whole(Max(args[1].width, args[1].height)))

\* C6: every make* call checks its descriptor once, adds exactly one actor to
\* the world and returns that actor; the actors added so far are as many as
\* the make* calls so far.
OneActorPerCall ==
    /\ numActors = numCalls
    /\ IsMake =>
          /\ Len(cfgs) = 1
          /\ Len(ret) = 1
          /\ Len(added) = 1
          /\ added[1].actor = ret[1]
          /\ Len(ret[1].bodies) = 1

\* Witness of C6: a third make* call in a row has returned, this one a makeDestination.
OneActorPerCallWitness ==
    /\ call.name = "makeDestination"
    /\ numCalls = 3
    /\ numActors = 3
    /\ Len(added) = 1

\* The rectangle an added actor covers: x and y are its top-left corner.
RectOf(e) ==
    [left |-> e.actor.bodies[1].x, top |-> e.actor.bodies[1].y,
     right |-> e.actor.bodies[1].x + e.actor.width,
     bottom |-> e.actor.bodies[1].y + e.actor.height]

\* C7: drawBoundingBox(x0, y0, x1, y1, ...) with x0 <= x1 and y0 <= y1 adds
\* four box obstacles with the given density, elasticity and friction: the
\* top, bottom, left and right of a frame of thickness 1 around the rectangle,
\* none of them reaching into the rectangle's interior.
BoundingBoxFrame ==
    (call.name = "drawBoundingBox" /\ call.x0 <= call.x1 /\ call.y0 <= call.y1) =>
        LET x0 == call.x0
            y0 == call.y0
            x1 == call.x1
            y1 == call.y1
        IN  /\ Len(added) = 4
            /\ \A i \in 1..4 :
                  /\ added[i].actor.kind = "Obstacle"
                  /\ Len(added[i].actor.bodies) = 1
                  /\ ShapeOf(added[i].actor) = "box"
                  /\ added[i].actor.physics =
                        <<[density |-> call.density, elasticity |-> call.elasticity,
                           friction |-> call.friction]>>
                  /\ ~(/\ RectOf(added[i]).left < x1 /\ RectOf(added[i]).right > x0
                       /\ RectOf(added[i]).top < y1 /\ RectOf(added[i]).bottom > y0)
            /\ {RectOf(added[i]) : i \in 1..4} =
                  { [left |-> x0 - 1, right |-> x1 + 1, top |-> y0 - 1, bottom |-> y0],
                    [left |-> x0 - 1, right |-> x1 + 1, top |-> y1, bottom |-> y1 + 1],
                    [left |-> x0 - 1, right |-> x0, top |-> y0 - 1, bottom |-> y1 + 1],
                    [left |-> x1, right |-> x1 + 1, top |-> y0 - 1, bottom |-> y1 + 1] }
            /\ Cardinality({RectOf(added[i]) : i \in 1..4}) = 4

\* Witness of C7: a box around a rectangle with an interior has been drawn.
BoundingBoxFrameWitness ==
    /\ call.name = "drawBoundingBox"
    /\ call.x0 < call.x1
    /\ call.y0 < call.y1
    /\ call.density /= call.elasticity
    /\ Len(added) = 4

BackgroundMethods ==
    {"addHorizontalBackgroundLayer", "addVerticalBackgroundLayer",
     "addHorizontalAutoBackgroundLayer", "addVerticalAutoBackgroundLayer"}
ForegroundMethods == {"addHorizontalForegroundLayer"}
HorizontalMethods ==
    {"addHorizontalBackgroundLayer", "addHorizontalForegroundLayer",
     "addHorizontalAutoBackgroundLayer"}
AutoMethods == {"addHorizontalAutoBackgroundLayer", "addVerticalAutoBackgroundLayer"}
IsBackgroundCall(c) == c.method \in BackgroundMethods
IsForegroundCall(c) == c.method \in ForegroundMethods
\* The calls that are to add to the background, to the foreground, in call order.
BackgroundCalls == SelectSeq(layerCalls, IsBackgroundCall)
ForegroundCalls == SelectSeq(layerCalls, IsForegroundCall)

\* C8: the layer of every parallax call has the caller's speed, on the one
\* scale where 1 is the camera's speed; the auto flag is true for the two
\* Auto methods and false for the others.
SpeedIsCallersSpeed ==
    /\ Len(background) = Len(BackgroundCalls)
    /\ Len(foreground) = Len(ForegroundCalls)
    /\ \A i \in 1..Len(background) :
          /\ SameFrac(background[i].speed, Whole(BackgroundCalls[i].speed))
          /\ background[i].auto = (BackgroundCalls[i].method \in AutoMethods)
    /\ \A i \in 1..Len(foreground) :
          /\ SameFrac(foreground[i].speed, Whole(ForegroundCalls[i].speed))
          /\ foreground[i].auto = (ForegroundCalls[i].method \in AutoMethods)

\* Layer pl is the one call c is to create: c's image and place, the speed c
\* gave (as the numerator), repeating in X for a Horizontal method, in Y for
\* a Vertical one.
LayerOfCall(pl, c) ==
    /\ pl.img = c.cfg.img
    /\ pl.x = c.cfg.x /\ pl.y = c.cfg.y
    /\ pl.width = c.cfg.width /\ pl.height = c.cfg.height
    /\ pl.speed.num = c.speed
    /\ pl.horizontal = (c.method \in HorizontalMethods)

\* C9: the background holds exactly the layers of the four Background
\* methods' calls and the foreground those of addHorizontalForegroundLayer's,
\* one layer per call, in call order, each repeating on its method's axis.
LayersInCallOrder ==
    /\ Len(background) = Len(BackgroundCalls)
    /\ Len(foreground) = Len(ForegroundCalls)
    /\ \A i \in 1..Len(background) : LayerOfCall(background[i], BackgroundCalls[i])
    /\ \A i \in 1..Len(foreground) : LayerOfCall(foreground[i], ForegroundCalls[i])

\* Witness of C9: the background got a vertical auto layer and then a
\* horizontal one of another speed, and holds them in that order.
LayersInCallOrderWitness ==
    /\ Len(layerCalls) = 2
    /\ layerCalls[1].method = "addVerticalAutoBackgroundLayer" /\ layerCalls[1].speed = 2
    /\ layerCalls[2].method = "addHorizontalBackgroundLayer" /\ layerCalls[2].speed = 1
    /\ Len(background) = 2
    /\ ~background[1].horizontal /\ background[1].auto
    /\ background[2].horizontal /\ ~background[2].auto
    /\ foreground = << >>

\* C10: with tilt enabled on a device without accelerometer, key-down of UP,
\* DOWN, LEFT, RIGHT sets Y to -5, Y to 5, X to -5, X to 5 and key-up sets the
\* key's axis to 0; while an arrow key that went down after enableTilt is held
\* the tilt on its axis is not 0, and while no arrow key of an axis is held
\* the tilt on that axis is 0; on a device with accelerometer no key handler
\* is installed.
ArrowKeysSimulateTilt ==
    /\ (tiltMax /= << >> /\ ~supported) =>
          /\ downHandler["UP"] = setY(-5) /\ downHandler["DOWN"] = setY(5)
          /\ downHandler["LEFT"] = setX(-5) /\ downHandler["RIGHT"] = setX(5)
          /\ upHandler["UP"] = setY(0) /\ upHandler["DOWN"] = setY(0)
          /\ upHandler["LEFT"] = setX(0) /\ upHandler["RIGHT"] = setX(0)
          /\ (heldSince \cap {"UP", "DOWN"} /= {}) => accelY /= 0
          /\ (heldSince \cap {"LEFT", "RIGHT"} /= {}) => accelX /= 0
          /\ (held \cap {"UP", "DOWN"} = {}) => accelY = 0
          /\ (held \cap {"LEFT", "RIGHT"} = {}) => accelX = 0
    /\ supported =>
          \A k \in Keys : upHandler[k] = NoHandler /\ downHandler[k] = NoHandler

====
